---- MODULE Spec2Model ----
(***************************************************************************)
(* State-machine model of Prototype_Arduino.ino: the pulse detector, the   *)
(* NN-interval history, the BPM estimator, computeHRV, the stress          *)
(* classifier, the flatline guard, the two vibration motors and the        *)
(* Bluetooth telemetry, driven by the Arduino runtime (setup once, then    *)
(* loop for ever).                                                         *)
(*                                                                         *)
(* Numbers.  TLC integers are 32 bit, so the clock is kept far below 2^31  *)
(* and the unsigned 32-bit subtractions on timestamps never wrap in the    *)
(* model.  The one unsigned subtraction that does wrap in the program,     *)
(* nnIntervals[i] - nnIntervals[i - 1] in computeHRV, is modelled as what  *)
(* it is (see SuccessiveWrap).  float arithmetic on values the model can   *)
(* hold is taken as exact: sdnn is kept as the fraction sdnn^2 = num/den,  *)
(* and rmssd, which the program truncates to an int, as an integer.        *)
(***************************************************************************)
EXTENDS Integers, Sequences, FiniteSets, TLC

\* ---------------------------------------------------------------- program constants
UpperThreshold == 560
ECG_SAMPLE_SIZE == 128
ECG_AMPLITUDE == 20
RefractoryMs == 600
interval == 10000
transmissionInterval == 5000
\* decayRate = 0.9 as the fraction DecayNum / DecayDen
DecayNum == 9
DecayDen == 10
\* analogRead range mapped by map(pulseValue, 0, 1023, 0, ECG_AMPLITUDE)
AdcMax == 1023
\* "% 1000" of the RMSSD truncation
RmssdModulus == 1000
\* INT_MAX % 1000 and INT_MIN % 1000: what int(x) % 1000 gives when x is out of
\* the range of int and the conversion saturates
IntMaxMod == 647
IntMinMod == -648

\* ---------------------------------------------------------------- bounds of the model
\* Two kinds of run are followed.  A short run has FreeSteps iterations whose
\* timing and sample are chosen freely and then loses the sensor; it is followed
\* up to the clock value MaxTime (ms), or until its bpm has decayed to 0.  A long run has LongFree free iterations
\* and then a steady pulse, which wraps both 128-entry buffers before LongTime;
\* it may lose the sensor while the clock is below DetachUntil.
FreeSteps == 2
MaxTime == 80000
LongFree == 1
LongTime == 91000
DetachUntil == 11000

\* ---------------------------------------------------------------- environment
\* One loop iteration of a steady pulse: the time it takes and the sample it reads.
NominalDt == 625
NominalSample == 600
\* Iteration time once the sensor is detached (it then reads 0).
SilentDt == 5000
Nominal == <<NominalDt, NominalSample>>
\* <<time since the previous iteration, raw sample>> of a freely chosen iteration
FreeInputs ==
    { <<300, 600>>, <<600, 600>>, <<601, 560>>, <<601, 561>>, <<601, 0>>,
      <<900, 600>>, <<1100, 1023>> }

Levels == {"None", "Low", "Moderate", "High", "Very High"}

VARIABLES
    pc,                   \* "setup", "loop" or "halted"; "classify" and
                          \* "classified" when the classifier is run alone
    now,                  \* the value millis() returned last
    lastBeatTime, intervalStartTime, bpm, ecgWaveform, ecgIndex, pulseCount,
    sdnn, rmssd, stressLevel, nnIntervals, nnIndex, lastTransmissionTime,
    motor1, motor2,       \* levels of the two motor pins
    oled,                 \* <<bpm, stressLevel>> of the frame on the display
    btLog,                \* the last two telemetry records sent, older first
    btCount,              \* number of telemetry records sent
    serialLog,            \* diagnostic lines printed by setup
    beatTimes,            \* history: timestamps of the accepted beats
    last,                 \* history: what the last loop iteration did
    sensor,               \* environment: "on" or "off" (detached)
    freeLeft,             \* environment: free iterations left
    run                   \* environment: "short" or "long", the kind of run

vars ==
    << pc, now, lastBeatTime, intervalStartTime, bpm, ecgWaveform, ecgIndex,
       pulseCount, sdnn, rmssd, stressLevel, nnIntervals, nnIndex,
       lastTransmissionTime, motor1, motor2, oled, btLog, btCount, serialLog,
       beatTimes, last, sensor, freeLeft, run >>

Slots == 0 .. (ECG_SAMPLE_SIZE - 1)

\* ---------------------------------------------------------------- helpers
Abs(x) == IF x < 0 THEN -x ELSE x

RECURSIVE SumOver(_, _, _)
\* sum of f[i] for i in lo .. hi - 1
SumOver(f, lo, hi) == IF lo >= hi THEN 0 ELSE f[lo] + SumOver(f, lo + 1, hi)

RECURSIVE ISqrtIn(_, _, _)
ISqrtIn(x, lo, hi) ==
    IF hi - lo <= 1 THEN lo
    ELSE LET mid == (lo + hi) \div 2
         IN  IF mid * mid <= x THEN ISqrtIn(x, mid, hi) ELSE ISqrtIn(x, lo, mid)
\* floor of the square root (x < 2^31)
ISqrt(x) == ISqrtIn(x, 0, 46341)

\* map(pulseValue, 0, 1023, 0, ECG_AMPLITUDE): long arithmetic, truncating
Map(x) == (x * ECG_AMPLITUDE) \div AdcMax

\* ---------------------------------------------------------------- pulse detector

\* mutant: the refractory test lets a beat through at exactly 600 ms
BeatAccepted_AtRefractory(pulseValue, currentMillis, lbt) ==
    pulseValue > UpperThreshold /\ (currentMillis - lbt) >= RefractoryMs

\* mutant: no refractory test at all
BeatAccepted_NoRefractory(pulseValue, currentMillis, lbt) ==
    pulseValue > UpperThreshold /\ currentMillis >= lbt

\* mutant: the write index wraps one slot early
NextIndex_Early(i) == (i + 1) % (ECG_SAMPLE_SIZE - 1)

\* mutant: the first beat after startup is not held to the refractory period
BeatAccepted_FirstFree(pulseValue, currentMillis, lbt) ==
    pulseValue > UpperThreshold /\ (lbt = 0 \/ (currentMillis - lbt) > RefractoryMs)

\* (index + 1) % ECG_SAMPLE_SIZE
NextIndex(i) == (i + 1) % ECG_SAMPLE_SIZE

BeatAccepted(pulseValue, currentMillis, lbt) ==
    pulseValue > UpperThreshold /\ (currentMillis - lbt) > RefractoryMs

\* ---------------------------------------------------------------- BPM estimator

\* mutant: the decayed value is rounded instead of truncated
DecayBpm_Rounded(b) == (b * DecayNum + (DecayDen \div 2)) \div DecayDen

\* mutant: the decayed value is rounded up
DecayBpm_Ceil(b) == (b * DecayNum + (DecayDen - 1)) \div DecayDen

\* bpm *= decayRate: int * float in single precision, truncated back to int.
\* For 0 <= b < 2^24 the float product b * 0.9f rounds to the exact 9b/10 when
\* that is an integer and keeps its integer part otherwise, so the result is
\* floor(9b / 10).
DecayBpm(b) == (b * DecayNum) \div DecayDen

EstimateBpm(count, b) ==
    IF count > 0
    THEN (count * 60) \div (interval \div 1000)
    ELSE LET d == DecayBpm(b) IN IF d < 1 THEN 0 ELSE d

\* ---------------------------------------------------------------- computeHRV
SdnnZero == [num |-> 0, den |-> 1]

HrvGuard(n) == n < 2

\* Intervals are measured from this offset inside the sums below; the sum of
\* squared deviations from the mean does not depend on it, and it keeps the
\* products inside 32 bits.
NNBase == RefractoryMs + 1

\* sumSquareDiff = sum (x_i - meanNN)^2 with meanNN = sumNN / nnIndex, as the
\* fraction num/den:  sum (x_i - S/n)^2 = (n * sum y_i^2 - (sum y_i)^2) / n
\* for y_i = x_i - NNBase.
SumSquareDiff(arr, n) ==
    LET y  == [i \in 0 .. (n - 1) |-> arr[i] - NNBase]
        y2 == [i \in 0 .. (n - 1) |-> y[i] * y[i]]
        sy == SumOver(y, 0, n)
    IN  [num |-> n * SumOver(y2, 0, n) - sy * sy, den |-> n]

\* mutant: population variance, dividing by nnIndex
SdnnOf_Population(arr, n) ==
    LET ssd == SumSquareDiff(arr, n)
    IN  [num |-> ssd.num, den |-> ssd.den * n]

\* sdnn = sqrt(sumSquareDiff / (nnIndex - 1)), kept as sdnn^2
SdnnOf(arr, n) ==
    LET ssd == SumSquareDiff(arr, n)
    IN  [num |-> ssd.num, den |-> ssd.den * (n - 1)]

\* nnIntervals[i] - nnIntervals[i - 1] is an unsigned long subtraction: when the
\* later interval is the smaller one it wraps to 2^32 - d.
SuccessiveWrap(arr, n) == \E i \in 1 .. (n - 1) : arr[i] < arr[i - 1]

SumSquareDiffSuccessive(arr, n) ==
    LET d2 == [i \in 1 .. (n - 1) |-> (arr[i] - arr[i - 1]) * (arr[i] - arr[i - 1])]
    IN  SumOver(d2, 1, n)

\* int(sqrt(sumSquareDiffSuccessive / (nnIndex - 1))) % 1000 without a wrap
RmssdOf(arr, n) ==
    ISqrt(SumSquareDiffSuccessive(arr, n) \div (n - 1)) % RmssdModulus

WrapCount(arr, n) == Cardinality({i \in 1 .. (n - 1) : arr[i] < arr[i - 1]})

\* With k wrapped differences the sum is k * 2^64 to within a few parts in a
\* million, so the root is 2^32 * sqrt(k / (n - 1)).
\*  - 4k > n - 1: the root exceeds INT_MAX and int(...) is undefined; the
\*    conversion saturates, to INT_MAX on the ESP32 and to INT_MIN on x86.
\*  - 4k < n - 1: the root is an int near 10^9 whose last three digits depend on
\*    the float rounding of the build; the outcomes kept are 0, 999 and one value
\*    on each side of every rmssd threshold of the classifier.
\*  - 4k = n - 1: the root is within rounding of 2^31, either case.
OutOfRangeRmssd == {IntMinMod, IntMaxMod}
InRangeRmssd == {0, 29, 30, 70, 71, 999}

WrappedRmssd(arr, n) ==
    LET k == WrapCount(arr, n)
    IN  IF 4 * k > n - 1 THEN OutOfRangeRmssd
        ELSE IF 4 * k < n - 1 THEN InRangeRmssd
        ELSE OutOfRangeRmssd \cup InRangeRmssd

RmssdOutcomes(arr, n) ==
    IF SuccessiveWrap(arr, n) THEN WrappedRmssd(arr, n) ELSE {RmssdOf(arr, n)}

\* the possible results [sdnn, rmssd] of computeHRV()
computeHRV(arr, n) ==
    IF HrvGuard(n)
    THEN {[sdnn |-> SdnnZero, rmssd |-> 0]}
    ELSE {[sdnn |-> SdnnOf(arr, n), rmssd |-> r] : r \in RmssdOutcomes(arr, n)}

\* comparisons of sdnn = sqrt(num/den) with an integer k >= 0
SdnnLt(s, k) == s.num < k * k * s.den
SdnnLe(s, k) == s.num <= k * k * s.den

\* ---------------------------------------------------------------- classifier

\* mutant: rule 2 without its lower limits on sdnn and rmssd
HighRule_Loose(b, s, r) == b > 80 /\ SdnnLe(s, 100) /\ r <= 70

\* the conditions of rules 1, 2 and 3
VeryHighRule(b, s, r) == b > 90 /\ SdnnLt(s, 50) /\ r < 30
HighRule(b, s, r) ==
    b > 80 /\ ~SdnnLt(s, 50) /\ SdnnLe(s, 100) /\ r >= 30 /\ r <= 70
ModerateRule(b, s, r) == b > 70 /\ ~SdnnLe(s, 100) /\ r > 70

\* mutant: rule 1 takes sdnn = 50 as well
Classify_Le50(b, s, r) ==
    IF b > 0
    THEN IF b > 90 /\ SdnnLe(s, 50) /\ r < 30 THEN "Very High"
         ELSE IF b > 80 /\ ~SdnnLt(s, 50) /\ SdnnLe(s, 100) /\ r >= 30 /\ r <= 70
              THEN "High"
         ELSE IF b > 70 /\ ~SdnnLe(s, 100) /\ r > 70 THEN "Moderate"
         ELSE "Low"
    ELSE "None"

\* mutant: the rules are applied to a bpm of 0 as well
Classify_ZeroLow(b, s, r) ==
    IF b >= 0
    THEN IF b > 90 /\ SdnnLt(s, 50) /\ r < 30 THEN "Very High"
         ELSE IF b > 80 /\ ~SdnnLt(s, 50) /\ SdnnLe(s, 100) /\ r >= 30 /\ r <= 70
              THEN "High"
         ELSE IF b > 70 /\ ~SdnnLe(s, 100) /\ r > 70 THEN "Moderate"
         ELSE "Low"
    ELSE "None"

Classify(b, s, r) ==
    IF b > 0
    THEN IF b > 90 /\ SdnnLt(s, 50) /\ r < 30 THEN "Very High"
         ELSE IF b > 80 /\ ~SdnnLt(s, 50) /\ SdnnLe(s, 100) /\ r >= 30 /\ r <= 70
              THEN "High"
         ELSE IF b > 70 /\ ~SdnnLe(s, 100) /\ r > 70 THEN "Moderate"
         ELSE "Low"
    ELSE "None"

\* ---------------------------------------------------------------- flatline guard

\* mutant: the scan starts one pair too late
MinimalVariation_SkipFirst(w) ==
    \A i \in 2 .. (ECG_SAMPLE_SIZE - 1) : ~(Abs(w[i] - w[i - 1]) > 1)

MinimalVariation(w) ==
    \A i \in 1 .. (ECG_SAMPLE_SIZE - 1) : ~(Abs(w[i] - w[i - 1]) > 1)

\* ---------------------------------------------------------------- actuators

\* mutant: the two pins are swapped for "High"
controlVibeMotors_Swapped(level) ==
    IF level = "Very High" THEN <<1, 1>>
    ELSE IF level = "High" THEN <<0, 1>>
    ELSE <<0, 0>>

\* controlVibeMotors(stressLevel): the levels written to <<motor1, motor2>>
controlVibeMotors(level) ==
    IF level = "Very High" THEN <<1, 1>>
    ELSE IF level = "High" THEN <<1, 0>>
    ELSE <<0, 0>>

\* ---------------------------------------------------------------- telemetry

\* mutant: a record is sent only after more than 5000 ms
TransmissionDue_Strict(currentMillis, ltt) == currentMillis - ltt > transmissionInterval

TransmissionDue(currentMillis, ltt) == currentMillis - ltt >= transmissionInterval

\* sendBluetoothData(): the record String(bpm) + "," + stressLevel
sendBluetoothData(t, b, level) == [at |-> t, bpm |-> b, level |-> level]

\* the history kept of the records sent
LastTwo(q) == IF Len(q) > 2 THEN Tail(q) ELSE q

\* mutant: the window closes only after more than 10000 ms
EvaluationDue_Strict(currentMillis, ist) == currentMillis - ist > interval

EvaluationDue(currentMillis, ist) == currentMillis - ist >= interval

\* ---------------------------------------------------------------- initial state
NoIteration ==
    [ran |-> FALSE, sample |-> 0, accepted |-> FALSE, count |-> 0,
     evaluated |-> FALSE, prevBpm |-> 0, est |-> 0, level |-> "", flat |-> FALSE,
     sent |-> FALSE]

Runs == {"short", "long"}
FreeOf(r) == IF r = "short" THEN FreeSteps ELSE LongFree
Horizon(r) == IF r = "short" THEN MaxTime ELSE LongTime
\* the sensor is detached and the stored bpm has not yet decayed to 0: such a
\* run is followed past its horizon, until the decay ends
Decaying == sensor = "off" /\ bpm > 0

Init ==
    /\ pc = "setup"
    /\ now = 0
    /\ lastBeatTime = 0
    /\ intervalStartTime = 0
    /\ bpm = 0
    /\ ecgWaveform = [i \in Slots |-> 0]
    /\ ecgIndex = 0
    /\ pulseCount = 0
    /\ sdnn = SdnnZero
    /\ rmssd = 0
    /\ stressLevel = ""
    /\ nnIntervals = [i \in Slots |-> 0]
    /\ nnIndex = 0
    /\ lastTransmissionTime = 0
    /\ motor1 = 0
    /\ motor2 = 0
    /\ oled = <<>>
    /\ btLog = <<>>
    /\ btCount = 0
    /\ serialLog = <<>>
    /\ beatTimes = <<>>
    /\ last = NoIteration
    /\ sensor = "on"
    /\ run \in Runs
    /\ freeLeft = FreeOf(run)

\* ---------------------------------------------------------------- setup()
\* display.begin() succeeds: setup returns and the runtime starts calling loop().
SetupOk ==
    /\ pc = "setup"
    /\ pc' = "loop"
    /\ UNCHANGED << now, lastBeatTime, intervalStartTime, bpm, ecgWaveform, ecgIndex,
                    pulseCount, sdnn, rmssd, stressLevel, nnIntervals, nnIndex,
                    lastTransmissionTime, motor1, motor2, oled, btLog, btCount,
                    serialLog, beatTimes, last, sensor, freeLeft, run >>

\* mutant: setup returns after the diagnostic line
SetupFail_Returns ==
    /\ pc = "setup"
    /\ pc' = "loop"
    /\ serialLog' = Append(serialLog, "SSD1306 allocation failed")
    /\ UNCHANGED << now, lastBeatTime, intervalStartTime, bpm, ecgWaveform, ecgIndex,
                    pulseCount, sdnn, rmssd, stressLevel, nnIntervals, nnIndex,
                    lastTransmissionTime, motor1, motor2, oled, btLog, btCount,
                    beatTimes, last, sensor, freeLeft, run >>

\* display.begin() fails: one diagnostic line, then for (;;) ;
SetupFail ==
    /\ pc = "setup"
    /\ pc' = "halted"
    /\ serialLog' = Append(serialLog, "SSD1306 allocation failed")
    /\ UNCHANGED << now, lastBeatTime, intervalStartTime, bpm, ecgWaveform, ecgIndex,
                    pulseCount, sdnn, rmssd, stressLevel, nnIntervals, nnIndex,
                    lastTransmissionTime, motor1, motor2, oled, btLog, btCount,
                    beatTimes, last, sensor, freeLeft, run >>

\* ---------------------------------------------------------------- loop()
\* mutant: the beat counter is not reset in a window the flatline override ends
loop_KeepCountOnFlat(dt, pulseValue) ==
    LET currentMillis == now + dt
        wave     == [ecgWaveform EXCEPT ![ecgIndex] = Map(pulseValue)]
        accepted == BeatAccepted(pulseValue, currentMillis, lastBeatTime)
        nnInterval == currentMillis - lastBeatTime
        nn       == IF accepted THEN [nnIntervals EXCEPT ![nnIndex] = nnInterval]
                    ELSE nnIntervals
        idx      == IF accepted THEN NextIndex(nnIndex) ELSE nnIndex
        count    == IF accepted THEN pulseCount + 1 ELSE pulseCount
        due      == EvaluationDue(currentMillis, intervalStartTime)
        est      == EstimateBpm(count, bpm)
        flat     == MinimalVariation(wave)
        send     == TransmissionDue(currentMillis, lastTransmissionTime)
    IN
    /\ pc = "loop"
    /\ currentMillis <= Horizon(run) \/ Decaying
    /\ now' = currentMillis
    /\ ecgWaveform' = wave
    /\ ecgIndex' = NextIndex(ecgIndex)
    /\ lastBeatTime' = IF accepted THEN currentMillis ELSE lastBeatTime
    /\ nnIntervals' = nn
    /\ nnIndex' = idx
    /\ beatTimes' = IF accepted THEN Append(beatTimes, currentMillis) ELSE beatTimes
    /\ IF due
       THEN \E h \in computeHRV(nn, idx) :
              LET level == Classify(est, h.sdnn, h.rmssd) IN
              /\ intervalStartTime' = currentMillis
              /\ sdnn' = h.sdnn
              /\ rmssd' = h.rmssd
              /\ bpm' = IF flat THEN 0 ELSE est
              /\ stressLevel' = IF flat THEN "None" ELSE level
              /\ pulseCount' = IF flat THEN count ELSE 0
              /\ last' = [ran |-> TRUE, sample |-> pulseValue, accepted |-> accepted,
                          count |-> count, evaluated |-> TRUE, prevBpm |-> bpm,
                          est |-> est, level |-> level, flat |-> flat, sent |-> send]
       ELSE /\ pulseCount' = count
            /\ last' = [ran |-> TRUE, sample |-> pulseValue, accepted |-> accepted,
                        count |-> count, evaluated |-> FALSE, prevBpm |-> bpm,
                        est |-> bpm, level |-> stressLevel, flat |-> FALSE,
                        sent |-> send]
            /\ UNCHANGED << intervalStartTime, sdnn, rmssd, bpm, stressLevel >>
    /\ motor1' = controlVibeMotors(stressLevel')[1]
    /\ motor2' = controlVibeMotors(stressLevel')[2]
    /\ oled' = <<bpm', stressLevel'>>
    /\ IF send
       THEN /\ lastTransmissionTime' = currentMillis
            /\ btLog' = LastTwo(Append(btLog, sendBluetoothData(currentMillis, bpm', stressLevel')))
            /\ btCount' = btCount + 1
       ELSE UNCHANGED << lastTransmissionTime, btLog, btCount >>
    /\ UNCHANGED << pc, serialLog >>

\* mutant: the window is evaluated on the beat count before this iteration's
\* detection, and a beat accepted now is carried into the next window
loop_EvaluateFirst(dt, pulseValue) ==
    LET currentMillis == now + dt
        wave     == [ecgWaveform EXCEPT ![ecgIndex] = Map(pulseValue)]
        accepted == BeatAccepted(pulseValue, currentMillis, lastBeatTime)
        nnInterval == currentMillis - lastBeatTime
        nn       == IF accepted THEN [nnIntervals EXCEPT ![nnIndex] = nnInterval]
                    ELSE nnIntervals
        idx      == IF accepted THEN NextIndex(nnIndex) ELSE nnIndex
        count    == IF accepted THEN pulseCount + 1 ELSE pulseCount
        due      == EvaluationDue(currentMillis, intervalStartTime)
        est      == EstimateBpm(pulseCount, bpm)
        flat     == MinimalVariation(wave)
        send     == TransmissionDue(currentMillis, lastTransmissionTime)
    IN
    /\ pc = "loop"
    /\ currentMillis <= Horizon(run) \/ Decaying
    /\ now' = currentMillis
    /\ ecgWaveform' = wave
    /\ ecgIndex' = NextIndex(ecgIndex)
    /\ lastBeatTime' = IF accepted THEN currentMillis ELSE lastBeatTime
    /\ nnIntervals' = nn
    /\ nnIndex' = idx
    /\ beatTimes' = IF accepted THEN Append(beatTimes, currentMillis) ELSE beatTimes
    /\ IF due
       THEN \E h \in computeHRV(nnIntervals, nnIndex) :
              LET level == Classify(est, h.sdnn, h.rmssd) IN
              /\ intervalStartTime' = currentMillis
              /\ sdnn' = h.sdnn
              /\ rmssd' = h.rmssd
              /\ bpm' = IF flat THEN 0 ELSE est
              /\ stressLevel' = IF flat THEN "None" ELSE level
              /\ pulseCount' = count - pulseCount
              /\ last' = [ran |-> TRUE, sample |-> pulseValue, accepted |-> accepted,
                          count |-> pulseCount, evaluated |-> TRUE, prevBpm |-> bpm,
                          est |-> est, level |-> level, flat |-> flat, sent |-> send]
       ELSE /\ pulseCount' = count
            /\ last' = [ran |-> TRUE, sample |-> pulseValue, accepted |-> accepted,
                        count |-> count, evaluated |-> FALSE, prevBpm |-> bpm,
                        est |-> bpm, level |-> stressLevel, flat |-> FALSE,
                        sent |-> send]
            /\ UNCHANGED << intervalStartTime, sdnn, rmssd, bpm, stressLevel >>
    /\ motor1' = controlVibeMotors(stressLevel')[1]
    /\ motor2' = controlVibeMotors(stressLevel')[2]
    /\ oled' = <<bpm', stressLevel'>>
    /\ IF send
       THEN /\ lastTransmissionTime' = currentMillis
            /\ btLog' = LastTwo(Append(btLog, sendBluetoothData(currentMillis, bpm', stressLevel')))
            /\ btCount' = btCount + 1
       ELSE UNCHANGED << lastTransmissionTime, btLog, btCount >>
    /\ UNCHANGED << pc, serialLog >>

\* One call of loop(): millis() returns now + dt and analogRead returns pulseValue.
loop(dt, pulseValue) ==
    LET currentMillis == now + dt
        wave     == [ecgWaveform EXCEPT ![ecgIndex] = Map(pulseValue)]
        accepted == BeatAccepted(pulseValue, currentMillis, lastBeatTime)
        nnInterval == currentMillis - lastBeatTime
        nn       == IF accepted THEN [nnIntervals EXCEPT ![nnIndex] = nnInterval]
                    ELSE nnIntervals
        idx      == IF accepted THEN NextIndex(nnIndex) ELSE nnIndex
        count    == IF accepted THEN pulseCount + 1 ELSE pulseCount
        due      == EvaluationDue(currentMillis, intervalStartTime)
        est      == EstimateBpm(count, bpm)
        flat     == MinimalVariation(wave)
        send     == TransmissionDue(currentMillis, lastTransmissionTime)
    IN
    /\ pc = "loop"
    /\ currentMillis <= Horizon(run) \/ Decaying
    /\ now' = currentMillis
    /\ ecgWaveform' = wave
    /\ ecgIndex' = NextIndex(ecgIndex)
    /\ lastBeatTime' = IF accepted THEN currentMillis ELSE lastBeatTime
    /\ nnIntervals' = nn
    /\ nnIndex' = idx
    /\ beatTimes' = IF accepted THEN Append(beatTimes, currentMillis) ELSE beatTimes
    /\ IF due
       THEN \E h \in computeHRV(nn, idx) :
              LET level == Classify(est, h.sdnn, h.rmssd) IN
              /\ intervalStartTime' = currentMillis
              /\ sdnn' = h.sdnn
              /\ rmssd' = h.rmssd
              /\ bpm' = IF flat THEN 0 ELSE est
              /\ stressLevel' = IF flat THEN "None" ELSE level
              /\ pulseCount' = 0
              /\ last' = [ran |-> TRUE, sample |-> pulseValue, accepted |-> accepted,
                          count |-> count, evaluated |-> TRUE, prevBpm |-> bpm,
                          est |-> est, level |-> level, flat |-> flat, sent |-> send]
       ELSE /\ pulseCount' = count
            /\ last' = [ran |-> TRUE, sample |-> pulseValue, accepted |-> accepted,
                        count |-> count, evaluated |-> FALSE, prevBpm |-> bpm,
                        est |-> bpm, level |-> stressLevel, flat |-> FALSE,
                        sent |-> send]
            /\ UNCHANGED << intervalStartTime, sdnn, rmssd, bpm, stressLevel >>
    /\ motor1' = controlVibeMotors(stressLevel')[1]
    /\ motor2' = controlVibeMotors(stressLevel')[2]
    /\ oled' = <<bpm', stressLevel'>>
    /\ IF send
       THEN /\ lastTransmissionTime' = currentMillis
            /\ btLog' = LastTwo(Append(btLog, sendBluetoothData(currentMillis, bpm', stressLevel')))
            /\ btCount' = btCount + 1
       ELSE UNCHANGED << lastTransmissionTime, btLog, btCount >>
    /\ UNCHANGED << pc, serialLog >>

\* ---------------------------------------------------------------- environment steps
\* A freely timed iteration with a freely chosen sample.
FreeIteration ==
    /\ sensor = "on"
    /\ freeLeft > 0
    /\ \E in \in FreeInputs : loop(in[1], in[2])
    /\ freeLeft' = freeLeft - 1
    /\ UNCHANGED << sensor, run >>

\* An iteration of the steady pulse.
SteadyIteration ==
    /\ sensor = "on"
    /\ freeLeft = 0
    /\ run = "long"
    /\ loop(NominalDt, NominalSample)
    /\ UNCHANGED << sensor, freeLeft, run >>

\* The sensor comes off between two iterations.
Detach ==
    /\ pc = "loop"
    /\ sensor = "on"
    /\ run = "long" => (freeLeft = 0 /\ now < DetachUntil)
    /\ sensor' = "off"
    /\ UNCHANGED << pc, now, lastBeatTime, intervalStartTime, bpm, ecgWaveform,
                    ecgIndex, pulseCount, sdnn, rmssd, stressLevel, nnIntervals,
                    nnIndex, lastTransmissionTime, motor1, motor2, oled, btLog,
                    btCount, serialLog, beatTimes, last, freeLeft, run >>

\* An iteration with the sensor detached.
SilentIteration ==
    /\ sensor = "off"
    /\ loop(SilentDt, 0)
    /\ UNCHANGED << sensor, freeLeft, run >>

Next ==
    \/ SetupOk
    \/ SetupFail
    \/ FreeIteration
    \/ SteadyIteration
    \/ Detach
    \/ SilentIteration

Spec == Init /\ [][Next]_vars

\* The clock step of SilentIteration.  SilentIteration is enabled exactly when
\* this step is (loop() has a result for every input), and the steps of Next
\* that advance the clock by SilentDt with the sensor detached are the
\* SilentIteration steps.
SilentClock ==
    /\ pc = "loop"
    /\ sensor = "off"
    /\ now + SilentDt <= Horizon(run) \/ Decaying
    /\ now' = now + SilentDt

\* The Arduino runtime calls loop() again whenever it returns, so an iteration
\* that can run does run.
LiveSpec == Spec /\ WF_now(SilentClock)

\* ---------------------------------------------------------------- the classifier alone
\* The classifier applied to inputs drawn from values on and around the limits
\* of its rules.
RuleBpm == {0, 1, 70, 71, 80, 81, 90, 91}
\* sdnn as sdnn^2 = num / den: 0, 49, just under 50, 50, 51, 100, just over 100, 101
RuleSdnn ==
    { [num |-> 0, den |-> 1], [num |-> 2401, den |-> 1], [num |-> 4999, den |-> 2],
      [num |-> 2500, den |-> 1], [num |-> 2601, den |-> 1], [num |-> 10000, den |-> 1],
      [num |-> 20001, den |-> 2], [num |-> 10201, den |-> 1] }
RuleRmssd == {IntMinMod, 0, 29, 30, 31, 69, 70, 71, IntMaxMod, 999}

RuleInit ==
    /\ pc = "classify"
    /\ bpm \in RuleBpm
    /\ sdnn \in RuleSdnn
    /\ rmssd \in RuleRmssd
    /\ now = 0
    /\ lastBeatTime = 0
    /\ intervalStartTime = 0
    /\ ecgWaveform = [i \in Slots |-> 0]
    /\ ecgIndex = 0
    /\ pulseCount = 0
    /\ stressLevel = ""
    /\ nnIntervals = [i \in Slots |-> 0]
    /\ nnIndex = 0
    /\ lastTransmissionTime = 0
    /\ motor1 = 0
    /\ motor2 = 0
    /\ oled = <<>>
    /\ btLog = <<>>
    /\ btCount = 0
    /\ serialLog = <<>>
    /\ beatTimes = <<>>
    /\ last = NoIteration
    /\ sensor = "on"
    /\ run = "short"
    /\ freeLeft = 0

\* the if / else-if chain of the evaluation, on the inputs drawn
ClassifyStep ==
    /\ pc = "classify"
    /\ pc' = "classified"
    /\ stressLevel' = Classify(bpm, sdnn, rmssd)
    /\ UNCHANGED << now, lastBeatTime, intervalStartTime, bpm, ecgWaveform, ecgIndex,
                    pulseCount, sdnn, rmssd, nnIntervals, nnIndex,
                    lastTransmissionTime, motor1, motor2, oled, btLog, btCount,
                    serialLog, beatTimes, last, sensor, freeLeft, run >>

RuleNext == ClassifyStep

RuleSpec == RuleInit /\ [][RuleNext]_vars

\* ================================================================ claims
\* ---------------------------------------------------------------- shared notions
\* the last step was a loop iteration that ran the evaluation window
Evaluated == last.ran /\ last.evaluated

\* a step that is one call of loop()
LoopStep == pc = "loop" /\ now' # now

\* every pair of array-adjacent waveform entries differs by at most 1
AdjacentWithinOne ==
    \A i \in 1 .. 127 :
        /\ ecgWaveform[i] - ecgWaveform[i - 1] <= 1
        /\ ecgWaveform[i - 1] - ecgWaveform[i] <= 1

\* the NN interval of the k-th accepted beat: the time since the beat before
\* it, or since startup for the first beat
IntervalOfBeat(k) == beatTimes[k] - (IF k = 1 THEN 0 ELSE beatTimes[k - 1])

\* the accepted beats whose interval is still in the history buffer
Buffered == {k \in 1 .. Len(beatTimes) : k > Len(beatTimes) - 128}

\* ---------------------------------------------------------------- C1
\* C1: in every loop iteration the sample is taken as a beat iff it is > 560 and
\* more than 600 ms have passed since lastBeatTime.  If so the interval is
\* written at the write index, lastBeatTime becomes the current time, the index
\* advances and the beat counter grows by one; if not, the history, lastBeatTime,
\* the index and the beat counter stay as they were.
C1_BeatGate ==
    [][ LoopStep =>
          LET hit == last'.sample > 560 /\ now' - lastBeatTime > 600
              counted == IF hit THEN pulseCount + 1 ELSE pulseCount
          IN  /\ last'.count = counted
              /\ pulseCount' = IF last'.evaluated THEN 0 ELSE counted
              /\ IF hit
                 THEN /\ lastBeatTime' = now'
                      /\ nnIntervals' =
                           [nnIntervals EXCEPT ![nnIndex] = now' - lastBeatTime]
                      /\ nnIndex' = (nnIndex + 1) % 128
                      /\ Len(beatTimes') = Len(beatTimes) + 1
                 ELSE /\ lastBeatTime' = lastBeatTime
                      /\ nnIntervals' = nnIntervals
                      /\ nnIndex' = nnIndex
                      /\ beatTimes' = beatTimes ]_vars

\* an above-threshold sample inside the refractory period of an accepted beat
\* was turned down
C1_Witness ==
    /\ last.ran
    /\ last.sample > 560
    /\ Len(beatTimes) >= 1
    /\ now > lastBeatTime
    /\ now - lastBeatTime <= 600
    /\ ~last.accepted

\* ---------------------------------------------------------------- C2
\* C2 as stated: every interval in the history is >= 600 and is the difference
\* between the timestamps of two consecutive accepted beats.
C2_Original ==
    \A k \in Buffered :
        /\ nnIntervals[(k - 1) % 128] >= 600
        /\ k >= 2
        /\ nnIntervals[(k - 1) % 128] = beatTimes[k] - beatTimes[k - 1]

\* C2 amended: every interval in the history is >= 600 and is the time from
\* the previous accepted beat to the beat that wrote it; the first beat has no
\* previous beat and its interval is the time since startup (lastBeatTime = 0).
C2_Intervals ==
    \A k \in Buffered :
        /\ nnIntervals[(k - 1) % 128] >= 600
        /\ nnIntervals[(k - 1) % 128] = IntervalOfBeat(k)

\* the history has wrapped: 130 beats were recorded
C2_Witness == Len(beatTimes) = 130 /\ nnIntervals[1] >= 600

\* ---------------------------------------------------------------- C3
\* C3 as stated: in every reachable state, and in every telemetry record and
\* display frame, the stress level is one of the five names.
C3_Original ==
    /\ stressLevel \in Levels
    /\ \A i \in 1 .. Len(btLog) : btLog[i].level \in Levels
    /\ oled # <<>> => oled[2] \in Levels

\* ---------------------------------------------------------------- C4
\* the rule table of the claim, on sdnn^2 = s.num / s.den
C4_Table(b, s, r) ==
    IF b = 0 THEN "None"
    ELSE IF b > 90 /\ s.num < 2500 * s.den /\ r < 30 THEN "Very High"
    ELSE IF /\ b > 80
            /\ 2500 * s.den <= s.num /\ s.num <= 10000 * s.den
            /\ 30 <= r /\ r <= 70
         THEN "High"
    ELSE IF b > 70 /\ s.num > 10000 * s.den /\ r > 70 THEN "Moderate"
    ELSE "Low"

\* C4: after an evaluation window in which the flatline override did not fire,
\* stressLevel is the rule table applied to the bpm, sdnn and rmssd just
\* computed; (91, 49, 29) is Very High and (91, 50, 29) is Low.
C4_RuleTable ==
    /\ (Evaluated /\ ~AdjacentWithinOne) => stressLevel = C4_Table(bpm, sdnn, rmssd)
    /\ Classify(91, [num |-> 49 * 49, den |-> 1], 29) = "Very High"
    /\ Classify(91, [num |-> 50 * 50, den |-> 1], 29) = "Low"

\* a window classified High by rule 2, with no override
C4_Witness ==
    /\ Evaluated
    /\ ~AdjacentWithinOne
    /\ stressLevel = "High"
    /\ bpm > 80

\* ---------------------------------------------------------------- C5
\* C5: at every evaluation window the override fires iff every pair of adjacent
\* waveform entries differs by at most 1; when it fires the window ends with
\* bpm = 0 and stressLevel = None whatever was estimated and classified; when it
\* does not, bpm and stressLevel are the estimator's and classifier's results.
C5_Flatline ==
    Evaluated =>
        /\ last.flat <=> AdjacentWithinOne
        /\ AdjacentWithinOne => (bpm = 0 /\ stressLevel = "None")
        /\ ~AdjacentWithinOne => (bpm = last.est /\ stressLevel = last.level)

\* a window estimated above 90 bpm and classified Very High was overridden
C5_Witness ==
    /\ Evaluated
    /\ AdjacentWithinOne
    /\ last.count > 15
    /\ last.est > 90
    /\ last.level = "Very High"
    /\ bpm = 0
    /\ stressLevel = "None"

\* ---------------------------------------------------------------- C6
\* the estimate the claim gives: 6 per counted beat, else 0.9 of the previous
\* bpm, truncated
C6_Estimate(count, prev) ==
    IF count > 0 THEN (count * 60) \div 10
    ELSE IF (prev * 9) \div 10 < 1 THEN 0 ELSE (prev * 9) \div 10

\* C6: at every evaluation window the bpm before the flatline override is
\* count * 60 / 10 when beats were counted and the truncated 0.9 * previous bpm
\* otherwise (0 when below 1); it is the bpm stored when the override does not
\* fire; from 100 three beat-less windows give 90, 81, 72.
C6_BpmEstimate ==
    /\ Evaluated =>
          /\ last.est = C6_Estimate(last.count, last.prevBpm)
          /\ ~AdjacentWithinOne => bpm = C6_Estimate(last.count, last.prevBpm)
    /\ EstimateBpm(0, 100) = 90
    /\ EstimateBpm(0, 90) = 81
    /\ EstimateBpm(0, 81) = 72

\* a beat-less window decayed a stored bpm of 81 to 72
C6_Witness ==
    /\ Evaluated
    /\ last.count = 0
    /\ last.prevBpm = 81
    /\ bpm = 72

\* ---------------------------------------------------------------- C7
C7_Min(n) == CHOOSE m \in {nnIntervals[i] : i \in 0 .. (n - 1)} :
                 \A i \in 0 .. (n - 1) : m <= nnIntervals[i]
C7_Max(n) == CHOOSE m \in {nnIntervals[i] : i \in 0 .. (n - 1)} :
                 \A i \in 0 .. (n - 1) : m >= nnIntervals[i]

\* the products of the direct SDNN formula stay inside 32 bits
C7_Fits(n) == n * (n - 1) * (C7_Max(n) - C7_Min(n)) <= 4000

\* sum over [0, n) of (n * x_i - sum x)^2, which is n^2 * sum (x_i - meanNN)^2
\* for meanNN the arithmetic mean
C7_SquaredDeviations(n) ==
    LET total == SumOver(nnIntervals, 0, n)
        d2 == [i \in 0 .. (n - 1) |->
                 (n * nnIntervals[i] - total) * (n * nnIntervals[i] - total)]
    IN  SumOver(d2, 0, n)

\* sdnn^2 = sum (x_i - meanNN)^2 / (n - 1), cross-multiplied
C7_Bessel(n) ==
    C7_SquaredDeviations(n) * sdnn.den = sdnn.num * (n * n * (n - 1))

C7_NoDecrease(n) == \A i \in 1 .. (n - 1) : nnIntervals[i] >= nnIntervals[i - 1]

\* rmssd = floor(sqrt(sum of squared successive differences / (n - 1))) mod 1000
C7_Rms(n) ==
    LET d2 == [i \in 1 .. (n - 1) |->
                 (nnIntervals[i] - nnIntervals[i - 1])
                   * (nnIntervals[i] - nnIntervals[i - 1])]
        mean == SumOver(d2, 1, n) \div (n - 1)
    IN  \E k \in 0 .. 46 :
            LET q == rmssd + 1000 * k
            IN  rmssd >= 0 /\ q <= 46339 /\ q * q <= mean /\ mean < (q + 1) * (q + 1)

\* C7 as stated: the zero result is for fewer than 2 intervals ever recorded;
\* with 2 or more ever recorded the statistics are computed over [0, count).
C7_Original ==
    Evaluated =>
        /\ Len(beatTimes) < 2 => (sdnn.num = 0 /\ rmssd = 0)
        /\ Len(beatTimes) >= 2 =>
              /\ nnIndex >= 2
              /\ sdnn.den > 0
              /\ C7_Fits(nnIndex) => C7_Bessel(nnIndex)

\* C7 amended: the zero result is for a write index below 2 (fewer than 2
\* intervals recorded so far, or since the index last wrapped); with a write
\* index count >= 2 the statistics are computed over [0, count): SDNN is the
\* Bessel-corrected deviation from the arithmetic mean, RMSSD comes from the
\* successive differences divided by count - 1.
C7_ComputeHRV ==
    Evaluated =>
        /\ nnIndex < 2 => (sdnn.num = 0 /\ rmssd = 0)
        /\ nnIndex >= 2 =>
              /\ sdnn.den > 0
              /\ C7_Fits(nnIndex) => C7_Bessel(nnIndex)
              /\ C7_NoDecrease(nnIndex) => C7_Rms(nnIndex)

\* a window over three intervals that are not all equal
C7_Witness ==
    /\ Evaluated
    /\ nnIndex = 3
    /\ C7_Fits(3)
    /\ C7_NoDecrease(3)
    /\ sdnn.num > 0
    /\ rmssd > 0

\* ---------------------------------------------------------------- C8
\* the history as the claim describes it: slots [0, nnIndex) hold the intervals
\* of the nnIndex most recent beats, oldest first
C8_Recent ==
    [i \in 0 .. 127 |->
        IF i < nnIndex THEN IntervalOfBeat(Len(beatTimes) - nnIndex + i + 1) ELSE 0]

\* C8: after n accepted beats the write index is n mod 128, both indices stay
\* inside [0, 128), slots [0, n mod 128) hold the n mod 128 most recent
\* intervals, and an HRV computation made at that point is the one over these
\* intervals alone.
C8_Wraparound ==
    /\ nnIndex = Len(beatTimes) % 128
    /\ nnIndex \in 0 .. 127
    /\ ecgIndex \in 0 .. 127
    /\ DOMAIN nnIntervals = 0 .. 127
    /\ DOMAIN ecgWaveform = 0 .. 127
    /\ \A i \in 0 .. (nnIndex - 1) : nnIntervals[i] = C8_Recent[i]
    /\ Evaluated =>
          [sdnn |-> sdnn, rmssd |-> rmssd] \in computeHRV(C8_Recent, nnIndex)

\* an evaluation after the index wrapped, over the 17 intervals recorded since
C8_Witness ==
    /\ Evaluated
    /\ Len(beatTimes) = 145
    /\ nnIndex = 17

\* ---------------------------------------------------------------- C9
\* floor(sqrt(sum of squared successive differences / (n - 1))) mod 1000
C9_Formula(n) ==
    LET d2 == [i \in 1 .. (n - 1) |->
                 (nnIntervals[i] - nnIntervals[i - 1])
                   * (nnIntervals[i] - nnIntervals[i - 1])]
    IN  ISqrt(SumOver(d2, 1, n) \div (n - 1)) % 1000

\* C9 as stated: after every evaluation window rmssd is in [0, 999] and is the
\* truncated root mean square of the successive differences modulo 1000, or 0
\* under the insufficient-sample guard.
C9_Original ==
    Evaluated =>
        /\ rmssd \in 0 .. 999
        /\ rmssd = IF nnIndex < 2 THEN 0 ELSE C9_Formula(nnIndex)

\* ---------------------------------------------------------------- C10
\* C10: after every loop iteration motor 1 is on iff stressLevel is Very High
\* or High and motor 2 is on iff it is Very High; motor 2 is never on with
\* motor 1 off, and both are off for None, Low and Moderate.
C10_Motors ==
    /\ last.ran =>
          /\ motor1 = 1 <=> stressLevel \in {"Very High", "High"}
          /\ motor2 = 1 <=> stressLevel = "Very High"
    /\ ~(motor2 = 1 /\ motor1 = 0)
    /\ stressLevel \in {"None", "Low", "Moderate"} => (motor1 = 0 /\ motor2 = 0)
    /\ (Evaluated /\ AdjacentWithinOne) => (motor1 = 0 /\ motor2 = 0)

\* High drives motor 1 alone
C10_Witness ==
    /\ last.ran
    /\ stressLevel = "High"
    /\ motor1 = 1
    /\ motor2 = 0

\* ---------------------------------------------------------------- C11
\* the beats accepted since the last evaluation window (since startup before
\* the first one); a beat accepted in the iteration that closed the window
\* belongs to that window
C11_BeatsSince ==
    Cardinality({k \in 1 .. Len(beatTimes) : beatTimes[k] > intervalStartTime})

\* C11: the beat counter is 0 after every evaluation window, whether the bpm
\* was recomputed or decayed and whether or not the flatline override fired;
\* at any other time it is the number of beats accepted since the last window.
C11_BeatCounter ==
    /\ Evaluated => pulseCount = 0
    /\ pulseCount = C11_BeatsSince

\* a window that counted beats and was ended by the flatline override
C11_Witness ==
    /\ Evaluated
    /\ last.count > 0
    /\ last.flat
    /\ pulseCount = 0

\* ---------------------------------------------------------------- C12
\* C12: a loop iteration emits a telemetry record iff now - lastTransmissionTime
\* >= 5000 on entry; it then emits exactly one, which carries bpm and
\* stressLevel as the iteration leaves them (after the evaluation pipeline and
\* any flatline override), and restarts the 5000 ms from now; otherwise nothing
\* is emitted.  Two consecutive records are at least 5000 ms apart.
C12_Telemetry ==
    /\ [](/\ Len(btLog) = (IF btCount < 2 THEN btCount ELSE 2)
          /\ Len(btLog) = 2 => btLog[2].at - btLog[1].at >= 5000)
    /\ [][ LoopStep =>
             IF now' - lastTransmissionTime >= 5000
             THEN /\ last'.sent
                  /\ btCount' = btCount + 1
                  /\ lastTransmissionTime' = now'
                  /\ btLog'[Len(btLog')] =
                        [at |-> now', bpm |-> bpm', level |-> stressLevel']
             ELSE /\ ~last'.sent
                  /\ UNCHANGED << btCount, btLog, lastTransmissionTime >> ]_vars

\* a record sent by an iteration whose window estimated a positive bpm and was
\* overridden: the record carries 0 and None
C12_Witness ==
    /\ Evaluated
    /\ last.sent
    /\ last.flat
    /\ last.est > 0
    /\ btCount >= 2
    /\ btLog[2] = [at |-> now, bpm |-> 0, level |-> "None"]

\* ---------------------------------------------------------------- C13
\* C13: a diagnostic line is logged only by a failed display initialisation,
\* which logs exactly one and halts: in the halted state loop() has never run
\* (no sample read, no beat recorded, no motor driven, no frame drawn, no
\* telemetry record sent), and the program never leaves that state.
C13_SetupHalt ==
    /\ []((pc = "halted" \/ Len(serialLog) > 0) =>
            /\ pc = "halted"
            /\ serialLog = << "SSD1306 allocation failed" >>
            /\ ~last.ran
            /\ now = 0
            /\ ecgIndex = 0
            /\ beatTimes = << >>
            /\ nnIndex = 0
            /\ pulseCount = 0
            /\ motor1 = 0
            /\ motor2 = 0
            /\ oled = << >>
            /\ btCount = 0
            /\ btLog = << >>)
    /\ [][pc # "halted"]_vars

\* the display failed to initialise
C13_Witness == pc = "halted" /\ Len(serialLog) = 1

\* ---------------------------------------------------------------- C14
\* C14: a loop iteration runs the evaluation pipeline iff now - intervalStartTime
\* >= 10000 on entry, and then restarts the window from now (so two
\* evaluations are at least 10000 ms apart).  Any other iteration leaves bpm,
\* sdnn, rmssd, stressLevel, intervalStartTime and the motor levels as they
\* were and does not reset the beat counter, which grows by one on an accepted
\* beat and is unchanged otherwise.
C14_WindowGate ==
    /\ [](intervalStartTime <= now /\ (Evaluated => intervalStartTime = now))
    /\ [][ LoopStep =>
             IF now' - intervalStartTime >= 10000
             THEN /\ last'.evaluated
                  /\ intervalStartTime' = now'
             ELSE /\ ~last'.evaluated
                  /\ UNCHANGED << bpm, sdnn, rmssd, stressLevel, intervalStartTime,
                                  motor1, motor2 >>
                  /\ pulseCount' =
                        pulseCount + (Len(beatTimes') - Len(beatTimes)) ]_vars

\* after the first window, an iteration inside a window accepted a beat and
\* left a positive bpm alone
C14_Witness ==
    /\ last.ran
    /\ ~last.evaluated
    /\ last.accepted
    /\ intervalStartTime > 0
    /\ now - intervalStartTime < 10000
    /\ bpm > 0
    /\ bpm = last.prevBpm
    /\ pulseCount > 0

\* ---------------------------------------------------------------- C15
\* the history before the index wraps, as the claim describes it: slot i holds
\* the interval of beat i + 1, and the interval of beat 1 is its timestamp
C15_History ==
    [i \in 0 .. 127 |->
        IF i < Len(beatTimes) THEN IntervalOfBeat(i + 1) ELSE 0]

\* C15: no beat is accepted in the first 600 ms after startup; until the
\* history index wraps, slot 0 holds the timestamp of the first accepted beat
\* and every HRV computation is the one over the history with that interval in
\* it (for two beats at t1 and t2: sdnn^2 = (t1 - (t2 - t1))^2 / 2).
C15_FirstBeat ==
    /\ \A k \in 1 .. Len(beatTimes) : beatTimes[k] > 600
    /\ Len(beatTimes) \in 1 .. 128 => nnIntervals[0] = beatTimes[1]
    /\ (Evaluated /\ Len(beatTimes) \in 2 .. 127) =>
          /\ nnIndex = Len(beatTimes)
          /\ [sdnn |-> sdnn, rmssd |-> rmssd]
                \in computeHRV(C15_History, Len(beatTimes))
    /\ (Evaluated /\ Len(beatTimes) = 2) =>
          2 * sdnn.num =
            sdnn.den * (beatTimes[1] - (beatTimes[2] - beatTimes[1]))
                     * (beatTimes[1] - (beatTimes[2] - beatTimes[1]))

\* a window over two beats: the first beat's timestamp is one of the two
\* intervals behind a positive sdnn
C15_Witness ==
    /\ Evaluated
    /\ Len(beatTimes) = 2
    /\ nnIntervals[0] = beatTimes[1]
    /\ nnIntervals[1] = beatTimes[2] - beatTimes[1]
    /\ sdnn.num > 0

\* ---------------------------------------------------------------- C16
\* a displayed or transmitted pair that contradicts itself
C16_Mismatch(b, level) ==
    \/ b > 0 /\ level = "None"
    \/ b = 0 /\ level \in {"Low", "Moderate", "High", "Very High"}

\* C16: once the first evaluation window has ended, stressLevel is the rule
\* table applied to the stored bpm, sdnn and rmssd (also after a flatline
\* override), and bpm = 0 iff stressLevel = None; no telemetry record and no
\* display frame pairs a positive bpm with None or a zero bpm with another
\* level.
C16_Consistent ==
    /\ intervalStartTime > 0 =>
          /\ stressLevel = C4_Table(bpm, sdnn, rmssd)
          /\ bpm = 0 <=> stressLevel = "None"
    /\ \A i \in 1 .. Len(btLog) : ~C16_Mismatch(btLog[i].bpm, btLog[i].level)
    /\ oled # << >> => ~C16_Mismatch(oled[1], oled[2])

\* a record sent between two windows carries a positive bpm and its level
C16_Witness ==
    /\ intervalStartTime > 0
    /\ last.ran
    /\ ~last.evaluated
    /\ last.sent
    /\ bpm > 0
    /\ stressLevel = "Low"
    /\ btLog[Len(btLog)] = [at |-> now, bpm |-> bpm, level |-> "Low"]

\* ---------------------------------------------------------------- C17
\* the state the decay ends in
C17_Rest == bpm = 0 /\ stressLevel = "None" /\ motor1 = 0 /\ motor2 = 0

\* C17: bpm is never negative; an evaluation window in which no beat was
\* counted leaves a positive bpm strictly smaller; once the sensor is detached
\* (no beat is accepted any more) bpm reaches 0 with stressLevel None and both
\* motors off; and from there an iteration that accepts no beat keeps them so.
C17_Decay ==
    /\ [](bpm >= 0)
    /\ [][ (LoopStep /\ last'.evaluated /\ last'.count = 0 /\ bpm > 0)
              => bpm' < bpm ]_vars
    /\ [][ (LoopStep /\ ~last'.accepted /\ pulseCount = 0 /\ C17_Rest)
              => C17_Rest' ]_vars
    /\ (sensor = "off") ~> C17_Rest

\* the last step of a decay: a beat-less window took bpm from 1 to 0, with no
\* flatline override
C17_Witness ==
    /\ sensor = "off"
    /\ Evaluated
    /\ last.count = 0
    /\ last.prevBpm = 1
    /\ ~last.flat
    /\ C17_Rest

\* ---------------------------------------------------------------- C18
\* the levels whose rule condition holds
C18_Holding(b, s, r) ==
    {lv \in {"Very High", "High", "Moderate"} :
        \/ lv = "Very High" /\ VeryHighRule(b, s, r)
        \/ lv = "High" /\ HighRule(b, s, r)
        \/ lv = "Moderate" /\ ModerateRule(b, s, r)}

\* C18: for every bpm, sdnn and rmssd at most one of the conditions of rules
\* 1, 2 and 3 holds, so the level given by the priority chain is the level of
\* the one rule that holds, whatever the order the rules are tried in (Low when
\* none holds, None for a bpm of 0).
C18_Exclusive ==
    /\ Cardinality(C18_Holding(bpm, sdnn, rmssd)) <= 1
    /\ pc = "classified" =>
          IF bpm <= 0 THEN stressLevel = "None"
          ELSE IF C18_Holding(bpm, sdnn, rmssd) = {} THEN stressLevel = "Low"
          ELSE stressLevel \in C18_Holding(bpm, sdnn, rmssd)

\* rule 2 decided on sdnn and rmssd alone: the bpm passes the bpm test of all
\* three rules
C18_Witness ==
    /\ pc = "classified"
    /\ bpm > 90
    /\ HighRule(bpm, sdnn, rmssd)
    /\ stressLevel = "High"

\* ---------------------------------------------------------------- C19
\* C19: an iteration that accepts a beat and closes a window counts that beat
\* in the window it closes: the estimate is 6 per beat counted before plus this
\* one, it is the bpm stored unless the override fires, the beat's interval is
\* in the history the HRV result is computed over, and the counter of the next
\* window starts at 0.
C19_DetectFirst ==
    [][ (LoopStep /\ last'.evaluated /\ last'.accepted) =>
          /\ last'.count = pulseCount + 1
          /\ last'.est = ((pulseCount + 1) * 60) \div 10
          /\ ~last'.flat => bpm' = ((pulseCount + 1) * 60) \div 10
          /\ pulseCount' = 0
          /\ nnIntervals'[nnIndex] = now' - lastBeatTime
          /\ nnIndex' = (nnIndex + 1) % 128
          /\ [sdnn |-> sdnn', rmssd |-> rmssd']
                \in computeHRV(nnIntervals', nnIndex') ]_vars

\* the iteration that closed the window accepted the last of its beats
C19_Witness ==
    /\ Evaluated
    /\ last.accepted
    /\ ~last.flat
    /\ last.count >= 2
    /\ bpm = 6 * last.count
    /\ lastBeatTime = now
    /\ pulseCount = 0

====
